---- MODULE Spec2Model ----
(***************************************************************************)
(* A state-machine model of pertnet.PertNet (src/pertnet/pertnet.py): the  *)
(* model container (model_initialize / save_model / load_pretrained), the  *)
(* predictor (predict) and the trainer (train), one step of the training   *)
(* loop per action.                                                        *)
(*                                                                         *)
(* The state of one program run is a record: the PertNet instance's       *)
(* attributes, the heap of predictor objects they refer to (so that        *)
(* aliasing of self.model and self.best_model is visible), the directory   *)
(* on disk, the locals of a running train() call and the result of the     *)
(* last call.  `self` is the run under study, with telemetry on; `twin` is *)
(* a second run of the same program on the same inputs (calls, gradients,  *)
(* validation scores, random draws) with telemetry off.                    *)
(***************************************************************************)
EXTENDS Integers, Sequences, FiniteSets, TLC

VARIABLES self, twin

vars == <<self, twin>>

----------------------------------------------------------------------------
(* Bounds of the model *)

MaxEpochs == 2
MaxGrad == 2
MaxVal == 1
MaxNoise == 1
MaxCalls == 3
MaxRows == 3

----------------------------------------------------------------------------
(* Values *)

\* Python's None, for self.config
None == [none |-> TRUE]

\* an attribute that was never assigned (self.model, self.best_model) or an
\* unbound local (best_model in train)
NoAttr == 0

\* object identities of predictor objects; three references exist at most:
\* self.model, self.best_model and train's local best_model
ObjIds == 1..3
Free == [free |-> TRUE]

\* np.inf: above every validation score
Inf == MaxVal + 1
ValScores == (0..MaxVal) \cup {Inf}

\* the gene universe pert_data.gene_names; a gene name is a string of symbols
gene_list == << <<"A">>, <<"B">>, <<"C">>, <<"D">> >>
num_genes == Len(gene_list)
GeneUniverse == {gene_list[i] : i \in 1..Len(gene_list)}

\* the parameter names of the predictor, in state_dict order
ParamOrder == << <<"w">>, <<"b">> >>
ParamNames == {ParamOrder[i] : i \in 1..Len(ParamOrder)}

\* the batches train_loader yields, in order: one batch, or two
train_loader == <<"batch_1">>
TwoBatches == <<"batch_1", "batch_2">>

\* the directory the program saves to and restores from
Dirs == {"d1"}

\* what PertNet_Model, whose code is outside this file, makes of a parameter:
\* built with a value that is not zero and reached by the loss, built with the
\* value zero and reached by the loss, or not reached by the loss (its .grad
\* stays None)
ParamKinds == {"nonzero", "zero", "unreached"}
Builds == [ParamNames -> ParamKinds]

\* clip_value of nn.utils.clip_grad_value_
clip_value == 1
\* the value every parameter of a new predictor has
InitialValue == <<>>

Min(a, b) == IF a < b THEN a ELSE b
Max(a, b) == IF a > b THEN a ELSE b

----------------------------------------------------------------------------
(* Results of a call *)

EmptyMap == [x \in {} |-> 0]
NoArgs == [op |-> "none", pert_list |-> <<>>, path |-> "", epochs |-> 0]

Return(pred, unc, has_unc) ==
    [kind |-> "return", exc |-> "", msg |-> <<>>,
     pred |-> pred, unc |-> unc, has_unc |-> has_unc]
ReturnNone == Return(EmptyMap, EmptyMap, FALSE)
Raise(exc, msg) ==
    [kind |-> "raise", exc |-> exc, msg |-> msg,
     pred |-> EmptyMap, unc |-> EmptyMap, has_unc |-> FALSE]
Running ==
    [kind |-> "running", exc |-> "", msg |-> <<>>,
     pred |-> EmptyMap, unc |-> EmptyMap, has_unc |-> FALSE]

\* the locals of train() when no train() call is running
NoTrain ==
    [epochs |-> 0, epoch |-> 0, step |-> 0,
     grad |-> [n \in ParamNames |-> 0],
     loss_grad |-> [n \in ParamNames |-> 0],
     lr_decays |-> 0, min_val |-> Inf, val |-> Inf,
     best_model |-> NoAttr,
     base |-> [n \in ParamNames |-> InitialValue],
     hist |-> [n \in ParamNames |-> <<>>],
     vals |-> <<>>, snap_epoch |-> 0,
     seen |-> <<>>]

----------------------------------------------------------------------------
(* The heap of predictor objects *)

\* drop the objects no reference reaches and number the others in the order
\* self.model, self.best_model, train's best_model; which references are to
\* the same object is kept
Collect(s) ==
    LET m == s.model
        b == s.best_model
        l == s.tr.best_model
        nm == IF m = NoAttr THEN NoAttr ELSE 1
        nb == IF b = NoAttr THEN NoAttr
              ELSE IF b = m THEN nm
              ELSE Cardinality({m} \ {NoAttr}) + 1
        nl == IF l = NoAttr THEN NoAttr
              ELSE IF l = m THEN nm
              ELSE IF l = b THEN nb
              ELSE Cardinality({m, b} \ {NoAttr}) + 1
        Old(i) == IF nm = i THEN m ELSE IF nb = i THEN b ELSE IF nl = i THEN l ELSE NoAttr
    IN [s EXCEPT !.model = nm, !.best_model = nb, !.tr.best_model = nl,
                 !.heap = [i \in ObjIds |->
                             IF Old(i) = NoAttr THEN Free ELSE s.heap[Old(i)]]]

\* the first free place of the heap
Alloc(heap) == CHOOSE i \in ObjIds : heap[i] = Free /\ \A j \in 1..(i-1) : heap[j] # Free

\* copy.deepcopy of a predictor: a new object with the same parameters and mode
deepcopy(obj) ==
    [params |-> obj.params, training |-> obj.training, uncertainty |-> obj.uncertainty]

\* PertNet_Model(config): a new predictor; an nn.Module starts in training mode
\* (its output is a pair when it is built with uncertainty, one tensor when not)
PertNet_Model(config) ==
    [params |-> [n \in ParamNames |-> InitialValue], training |-> TRUE,
     uncertainty |-> config.uncertainty]

\* nn.Module.state_dict(): the parameters by name, in order
state_dict(obj) ==
    [i \in 1..Len(ParamOrder) |-> [k |-> ParamOrder[i], v |-> obj.params[ParamOrder[i]]]]

----------------------------------------------------------------------------
(* PertNet.__init__ *)

NoDir == [exists |-> FALSE,
          config_pkl |-> [present |-> FALSE, data |-> <<>>],
          model_pt |-> [present |-> FALSE, data |-> <<>>]]

\* (best_val is history: the validation score at which the object that is
\* self.best_model was promoted by train(), np.inf when no train() promoted it)
\* a new PertNet in a process whose disk holds fs, whose telemetry module has
\* received wandb_log and which has made ncalls method calls so far
PertNetInit(weight_bias_track, wandb_log, fs, ncalls) ==
    [weight_bias_track |-> weight_bias_track,
     wandb_config |-> None,
     wandb_log |-> wandb_log,
     device |-> "cuda",
     split |-> "simulation",
     config |-> None,
     model |-> NoAttr,
     best_model |-> NoAttr,
     heap |-> [i \in ObjIds |-> Free],
     fs |-> fs,
     pc |-> "idle",
     tr |-> NoTrain,
     ret |-> ReturnNone,
     call |-> [NoArgs EXCEPT !.op = "__init__"],
     train_loader |-> train_loader,
     param_kind |-> [n \in ParamNames |-> "nonzero"],
     nforward |-> 0,
     best_val |-> Inf,
     ncalls |-> ncalls]

----------------------------------------------------------------------------
(* PertNet.model_initialize *)

\* the defaults of model_initialize's signature
DefaultArgs ==
    [hidden_size |-> 64, num_go_gnn_layers |-> 1, num_gene_gnn_layers |-> 1,
     decoder_hidden_size |-> 16, num_similar_genes_go_graph |-> 20,
     num_similar_genes_co_express_graph |-> 20, coexpress_threshold |-> "0.4",
     uncertainty |-> FALSE, uncertainty_reg |-> 1, direction_lambda |-> "1e-1",
     G_go |-> "None", G_go_weight |-> "None",
     G_coexpress |-> "None", G_coexpress_weight |-> "None"]

\* the argument records the model calls model_initialize with
InitArgs ==
    {DefaultArgs,
     [DefaultArgs EXCEPT !.uncertainty = TRUE,
                         !.G_go = "user_go_index", !.G_go_weight = "user_go_weight"]}

\* lines 77-93
NewConfig(s, a) ==
    [hidden_size |-> a.hidden_size,
     num_go_gnn_layers |-> a.num_go_gnn_layers,
     num_gene_gnn_layers |-> a.num_gene_gnn_layers,
     decoder_hidden_size |-> a.decoder_hidden_size,
     num_similar_genes_go_graph |-> a.num_similar_genes_go_graph,
     num_similar_genes_co_express_graph |-> a.num_similar_genes_co_express_graph,
     coexpress_threshold |-> a.coexpress_threshold,
     uncertainty |-> a.uncertainty,
     uncertainty_reg |-> a.uncertainty_reg,
     direction_lambda |-> a.direction_lambda,
     G_go |-> a.G_go,
     G_go_weight |-> a.G_go_weight,
     G_coexpress |-> a.G_coexpress,
     G_coexpress_weight |-> a.G_coexpress_weight,
     device |-> s.device,
     num_genes |-> num_genes]

\* lines 98-103
WithCoexpress(c) ==
    IF c.G_coexpress = "None"
    THEN [c EXCEPT !.G_coexpress = "coexpress_edge_index",
                   !.G_coexpress_weight = "coexpress_edge_weight"]
    ELSE c

\* lines 105-110
WithGo(c) ==
    IF c.G_go = "None"
    THEN [c EXCEPT !.G_go = "go_edge_index", !.G_go_weight = "go_edge_weight"]
    ELSE c

\* self.<attr> = <a new object>: the old referent is released, the new one placed
AssignModel(s, obj) ==
    LET s1 == Collect([s EXCEPT !.model = NoAttr])
        m == Alloc(s1.heap)
    IN Collect([s1 EXCEPT !.model = m, !.heap[m] = obj,
                          !.tr.grad = [n \in ParamNames |-> 0]])

AssignBestCopy(s) ==
    LET s1 == Collect([s EXCEPT !.best_model = NoAttr])
        b == Alloc(s1.heap)
    IN Collect([s1 EXCEPT !.best_model = b, !.heap[b] = deepcopy(s1.heap[s1.model]),
                          !.best_val = Inf])

\* wandb.config.update(d) without allow_val_change, in a script: a key the
\* run's config holds with another value is refused, and nothing is changed
ConfigUpdateRefused(held, d) ==
    /\ held # None
    /\ \E k \in (DOMAIN held) \cap (DOMAIN d) : held[k] # d[k]

ConfigUpdate(held, d) ==
    IF held = None THEN d
    ELSE [k \in (DOMAIN held) \cup (DOMAIN d) |-> IF k \in DOMAIN d THEN d[k] ELSE held[k]]

model_initialize(s, a) ==
    LET c0 == NewConfig(s, a)
        s0 == [s EXCEPT !.config = c0]
    IN IF s.weight_bias_track /\ ConfigUpdateRefused(s.wandb_config, c0)
       THEN [s0 EXCEPT !.ret = Raise("ConfigError", <<"allow_val_change">>)]
       ELSE
       LET s1 == [s0 EXCEPT !.config = WithGo(WithCoexpress(c0)),
                            !.wandb_config = IF s.weight_bias_track
                                             THEN ConfigUpdate(@, c0) ELSE @]
           s2 == AssignModel(s1, PertNet_Model(s1.config))
       IN [AssignBestCopy(s2) EXCEPT !.ret = ReturnNone]

----------------------------------------------------------------------------
(* PertNet.save_model and PertNet.load_pretrained *)

\* the keys of the configuration dict, in insertion order (lines 77-92)
ConfigKeyOrder ==
    <<"hidden_size", "num_go_gnn_layers", "num_gene_gnn_layers",
      "decoder_hidden_size", "num_similar_genes_go_graph",
      "num_similar_genes_co_express_graph", "coexpress_threshold",
      "uncertainty", "uncertainty_reg", "direction_lambda",
      "G_go", "G_go_weight", "G_coexpress", "G_coexpress_weight",
      "device", "num_genes">>

\* pickle.dump of a dict: its items, in order
RECURSIVE DumpFrom(_, _)
DumpFrom(c, i) ==
    IF i > Len(ConfigKeyOrder) THEN <<>>
    ELSE LET k == ConfigKeyOrder[i]
         IN (IF k \in DOMAIN c THEN <<[k |-> k, v |-> c[k]]>> ELSE <<>>)
            \o DumpFrom(c, i + 1)

pickle_dump(c) == DumpFrom(c, 1)

\* pickle.load: the dict of the items written
pickle_load(items) ==
    [k \in {items[i].k : i \in 1..Len(items)} |->
        items[CHOOSE i \in 1..Len(items) : items[i].k = k /\
              \A j \in (i+1)..Len(items) : items[j].k # k].v]

\* del config[k1], config[k2]
DelKeys(c, ks) == [k \in (DOMAIN c) \ ks |-> c[k]]

os_mkdir(fs, path) == [fs EXCEPT ![path].exists = TRUE]

NoModelMsg == <<"No model is initialized...">>

\* (mutant of save_model: the derived fields are stripped from the instance's
\* configuration after it is written)
save_model_strips_derived(s, path) ==
    LET fs1 == IF ~s.fs[path].exists THEN os_mkdir(s.fs, path) ELSE s.fs
    IN IF s.config = None
       THEN [s EXCEPT !.fs = fs1, !.ret = Raise("ValueError", NoModelMsg)]
       ELSE IF s.best_model = NoAttr
       THEN [s EXCEPT !.fs = [fs1 EXCEPT ![path].config_pkl =
                                  [present |-> TRUE, data |-> pickle_dump(s.config)]],
                      !.ret = Raise("AttributeError", <<"best_model">>)]
       ELSE [s EXCEPT
               !.fs = [fs1 EXCEPT
                         ![path].config_pkl =
                             [present |-> TRUE, data |-> pickle_dump(s.config)],
                         ![path].model_pt =
                             [present |-> TRUE,
                              data |-> state_dict(s.heap[s.best_model])]],
               !.config = DelKeys(s.config, {"device", "num_genes"}),
               !.ret = ReturnNone]

save_model(s, path) ==
    LET fs1 == IF ~s.fs[path].exists THEN os_mkdir(s.fs, path) ELSE s.fs
    IN IF s.config = None
       THEN [s EXCEPT !.fs = fs1, !.ret = Raise("ValueError", NoModelMsg)]
       ELSE IF s.best_model = NoAttr
       THEN [s EXCEPT !.fs = [fs1 EXCEPT ![path].config_pkl =
                                  [present |-> TRUE, data |-> pickle_dump(s.config)]],
                      !.ret = Raise("AttributeError", <<"best_model">>)]
       ELSE [s EXCEPT
               !.fs = [fs1 EXCEPT
                         ![path].config_pkl =
                             [present |-> TRUE, data |-> pickle_dump(s.config)],
                         ![path].model_pt =
                             [present |-> TRUE,
                              data |-> state_dict(s.heap[s.best_model])]],
               !.ret = ReturnNone]

\* 'module.'
ModulePrefix == <<"m", "o", "d", "u", "l", "e", ".">>

\* k[:7] and k[7:]
Head7(k) == SubSeq(k, 1, Min(7, Len(k)))
Tail7(k) == SubSeq(k, 8, Len(k))

\* lines 124-131
StripModule(sd) ==
    IF Len(sd) > 0 /\ Head7(sd[1].k) = ModulePrefix
    THEN [i \in 1..Len(sd) |-> [k |-> Tail7(sd[i].k), v |-> sd[i].v]]
    ELSE sd

SdKeys(sd) == {sd[i].k : i \in 1..Len(sd)}
SdValue(sd, n) ==
    sd[CHOOSE i \in 1..Len(sd) : sd[i].k = n /\ \A j \in (i+1)..Len(sd) : sd[j].k # n].v

\* nn.Module.load_state_dict (strict): the keys must be the module's own
load_state_dict_ok(sd) == SdKeys(sd) = ParamNames
load_state_dict(obj, sd) == [obj EXCEPT !.params = [n \in ParamNames |-> SdValue(sd, n)]]

load_pretrained(s, path) ==
    LET d == s.fs[path] IN
    IF ~d.config_pkl.present
    THEN [s EXCEPT !.ret = Raise("FileNotFoundError", <<"config.pkl">>)]
    ELSE
    LET config == pickle_load(d.config_pkl.data) IN
    IF "device" \notin DOMAIN config
    THEN [s EXCEPT !.ret = Raise("KeyError", <<"device">>)]
    ELSE IF "num_genes" \notin DOMAIN config
    THEN [s EXCEPT !.ret = Raise("KeyError", <<"num_genes">>)]
    ELSE
    LET stripped == DelKeys(config, {"device", "num_genes"})
        s0 == model_initialize(s, stripped)
        s1 == [s0 EXCEPT !.config = stripped]
    IN
    IF s0.ret.kind = "raise" THEN s0
    ELSE
    IF ~d.model_pt.present
    THEN [s1 EXCEPT !.ret = Raise("FileNotFoundError", <<"model.pt">>)]
    ELSE
    IF Len(d.model_pt.data) = 0
    THEN [s1 EXCEPT !.ret = Raise("StopIteration", <<>>)]
    ELSE
    LET sd == StripModule(d.model_pt.data) IN
    IF ~load_state_dict_ok(sd)
    THEN [s1 EXCEPT !.ret = Raise("RuntimeError", <<"load_state_dict">>)]
    ELSE
    LET s2 == [s1 EXCEPT !.heap[s1.model] = load_state_dict(@, sd)]
    IN Collect([s2 EXCEPT !.best_model = s2.model, !.best_val = Inf,
                          !.ret = ReturnNone])

----------------------------------------------------------------------------
(* The predictor's forward pass *)

W == <<"w">>
B == <<"b">>

\* the draws of torch's random generator, seeded at import (line 22)
NoiseValues == 0..MaxNoise

\* a stochastic layer uses the draw z in training mode only; in inference mode
\* the output is a function of the parameters
Noise(obj, z) == IF obj.training THEN z ELSE 0

\* the predicted expression of every gene, and its log-variance
Forward(obj, z, pert) ==
    [p |-> [g \in 1..num_genes |->
                [w |-> obj.params[W], genes |-> Len(pert), b |-> obj.params[B],
                 noise |-> Noise(obj, z)]],
     unc |-> [g \in 1..num_genes |-> [b |-> obj.params[B], noise |-> Noise(obj, z)]]]

\* np.mean of a vector whose entries are equal
Mean(vec) == vec[1]

\* np.exp(-x), kept symbolic
ExpNeg(x) == [exp_neg_of |-> x]

----------------------------------------------------------------------------
(* PertNet.predict *)

GeneA == <<"A">>
GeneB == <<"B">>
GeneX == <<"X">>

\* the perturbations the model calls predict with; X is no gene of the universe
PertLists ==
    { << <<GeneA>> >>,
      << <<GeneA>>, <<GeneA, GeneB>> >>,
      << <<GeneA>>, <<GeneA>> >>,
      << <<GeneA>>, <<GeneB, GeneX>> >>,
      << <<GeneX>>, <<GeneA>> >> }

\* '_'.join(pert)
RECURSIVE Join(_)
Join(pert) ==
    IF Len(pert) = 0 THEN <<>>
    ELSE IF Len(pert) = 1 THEN pert[1]
    ELSE pert[1] \o <<"_">> \o Join(Tail(pert))

GeneMsg ==
    <<"The gene is not in the perturbation graph.",
      "Please select from PertNet.gene_list!">>

\* lines 154-157: does the membership test raise?
ValidationRaises(pert_list) ==
    \E p \in 1..Len(pert_list) : \E i \in 1..Len(pert_list[p]) :
        pert_list[p][i] \notin GeneUniverse

\* d[k] = v on a dict
DictSet(d, k, v) == [x \in (DOMAIN d) \cup {k} |-> IF x = k THEN v ELSE d[x]]

\* lines 165-178: the body of the loop, for perturbation number i
PredictOne(s, pert_list, noise, i) ==
    LET pert == pert_list[i]
        obj == s.heap[s.best_model]
        out == Forward(obj, noise[i], pert)
    IN IF s.config.uncertainty /\ ~obj.uncertainty
       THEN \* line 173: one tensor is unpacked into p, unc
            [s EXCEPT !.nforward = @ + 1,
                      !.ret = Raise("ValueError", <<"too many values to unpack">>)]
       ELSE IF ~s.config.uncertainty /\ obj.uncertainty
       THEN \* line 178: p is the pair the predictor returned
            [s EXCEPT !.nforward = @ + 1,
                      !.ret = Raise("AttributeError", <<"detach">>)]
       ELSE [s EXCEPT
          !.nforward = @ + 1,
          !.ret.pred = DictSet(@, Join(pert), out.p),
          !.ret.unc = IF s.config.uncertainty
                      THEN DictSet(@, Join(pert), out.unc)
                      ELSE @]

RECURSIVE PredictLoop(_, _, _, _)
PredictLoop(s, pert_list, noise, i) ==
    IF i > Len(pert_list) \/ s.ret.kind = "raise" THEN s
    ELSE PredictLoop(PredictOne(s, pert_list, noise, i), pert_list, noise, i + 1)

\* lines 180-184
PredictReturn(s) ==
    IF s.ret.kind = "raise" THEN s
    ELSE IF s.config.uncertainty
    THEN [s EXCEPT !.ret = Return(s.ret.pred,
                                  [k \in DOMAIN s.ret.unc |-> ExpNeg(Mean(s.ret.unc[k]))],
                                  TRUE)]
    ELSE [s EXCEPT !.ret = Return(s.ret.pred, EmptyMap, FALSE)]

\* (mutant of predict: each perturbation is validated just before its own
\* forward pass)
RECURSIVE PredictLoopLazy(_, _, _, _)
PredictLoopLazy(s, pert_list, noise, i) ==
    IF i > Len(pert_list) \/ s.ret.kind = "raise" THEN PredictReturn(s)
    ELSE IF \E j \in 1..Len(pert_list[i]) : pert_list[i][j] \notin GeneUniverse
    THEN [s EXCEPT !.ret = Raise("ValueError", GeneMsg)]
    ELSE PredictLoopLazy(PredictOne(s, pert_list, noise, i), pert_list, noise, i + 1)

predict_lazy(s, pert_list, noise) ==
    LET s0 == [s EXCEPT !.nforward = 0, !.ret = Running] IN
    IF s0.config = None
    THEN [s0 EXCEPT !.ret = Raise("TypeError", <<"'NoneType' object is not subscriptable">>)]
    ELSE IF s0.best_model = NoAttr
    THEN [s0 EXCEPT !.ret = Raise("AttributeError", <<"best_model">>)]
    ELSE PredictLoopLazy(s0, pert_list, noise, 1)

predict(s, pert_list, noise) ==
    LET s0 == [s EXCEPT !.nforward = 0, !.ret = Running] IN
    IF ValidationRaises(pert_list)
    THEN [s0 EXCEPT !.ret = Raise("ValueError", GeneMsg)]
    ELSE IF s0.config = None
    THEN [s0 EXCEPT !.ret = Raise("TypeError", <<"'NoneType' object is not subscriptable">>)]
    ELSE IF s0.best_model = NoAttr
    THEN [s0 EXCEPT !.ret = Raise("AttributeError", <<"best_model">>)]
    ELSE PredictReturn(PredictLoop(s0, pert_list, noise, 1))

----------------------------------------------------------------------------
(* PertNet.train, one statement group per step *)

GradValues == (0 - MaxGrad)..MaxGrad
Grads == {[n \in ParamNames |-> IF n = <<"w">> THEN g ELSE 0] : g \in GradValues}

\* self.wandb.log({...}) when telemetry is on
WandbLog(s, keys) ==
    IF s.weight_bias_track THEN [s EXCEPT !.wandb_log = @ \cup keys] ELSE s

\* line 211: the next batch of train_loader, or the end of the epoch
BatchPc(s, step) ==
    IF step < Len(s.train_loader) THEN "zero_grad" ELSE "scheduler_step"

\* line 208: the next epoch of range(epochs), or the end of the loop
EpochPc(epoch, epochs) == IF epoch < epochs THEN "epoch_head" ELSE "assign_best"

\* lines 196-206
train_call(s, epochs) ==
    IF s.model = NoAttr
    THEN [s EXCEPT !.ret = Raise("AttributeError", <<"model">>)]
    ELSE [s EXCEPT !.pc = EpochPc(0, epochs),
                   !.tr = [NoTrain EXCEPT !.epochs = epochs, !.grad = s.tr.grad,
                                          !.base = s.heap[s.model].params],
                   !.ret = Running]

\* line 209, and the head of the batch loop
epoch_head(s) ==
    [s EXCEPT !.heap[s.model].training = TRUE,
              !.tr.step = 0,
              !.tr.seen = <<>>,
              !.pc = BatchPc(s, 0)]

\* lines 212-213
zero_grad(s) ==
    [s EXCEPT !.tr.grad = [n \in ParamNames |-> 0], !.pc = "forward"]

\* the number of rows of the tensor the predictor returns for a batch
BatchRows == 1..MaxRows

\* train() ends at a statement of the batch loop that raises
TrainRaises(s, exc, msg) ==
    Collect([s EXCEPT !.pc = "idle", !.tr = [NoTrain EXCEPT !.grad = s.tr.grad],
                      !.ret = Raise(exc, msg)])

\* lines 214-227, on the batch the loader yields at this step (seen is
\* history: the batches of the epoch so far).  rows is the number of rows of
\* the predictor's output for the batch; loss_ok is whether loss_fct, whose
\* code is outside this file, takes a pair for its prediction without raising.
forward_loss(s, rows, loss_ok) ==
    LET obj == s.heap[s.model]
        goes_on == [s EXCEPT !.tr.seen = Append(@, s.train_loader[s.tr.step + 1]),
                             !.pc = "backward"]
    IN IF s.config.uncertainty /\ ~obj.uncertainty
       THEN \* line 216: the one tensor the predictor returns is unpacked row
            \* by row into pred, logvar
            IF rows = 2 THEN goes_on
            ELSE IF rows < 2
            THEN TrainRaises(s, "ValueError", <<"not enough values to unpack">>)
            ELSE TrainRaises(s, "ValueError", <<"too many values to unpack">>)
       ELSE IF ~s.config.uncertainty /\ obj.uncertainty
       THEN \* lines 224-225: loss_fct is handed the pair the predictor returned
            IF loss_ok THEN goes_on
            ELSE TrainRaises(s, "Exception", <<"loss_fct">>)
       ELSE goes_on

\* the gradient of the loss on the parameters it reaches
Reached(s, g) ==
    [n \in ParamNames |-> IF s.param_kind[n] = "unreached" THEN 0 ELSE g[n]]

\* line 228: backpropagation adds the loss gradient g to .grad
backward(s, g) ==
    [s EXCEPT !.tr.grad = [n \in ParamNames |-> @[n] + Reached(s, g)[n]],
              !.tr.loss_grad = Reached(s, g),
              !.pc = "clip"]

\* (mutant of clip_grad_value_: the gradient is left as it is)
clip_grad_none(grad) == grad

\* line 229
clip_grad_value_(grad) ==
    [n \in DOMAIN grad |-> Max(0 - clip_value, Min(clip_value, grad[n]))]

clip(s) ==
    [s EXCEPT !.tr.grad = clip_grad_value_(@), !.pc = "optimizer_step"]

\* A parameter value is kept as what determines it: InitialValue for the value
\* the predictor is built with, and after that the runs of the optimizer that
\* moved it, one entry per train() call, each run the clipped gradients the
\* optimizer was stepped with and the number of learning-rate decays before
\* each of them.
AllZero(run) == \A i \in 1..Len(run) : run[i].grad = 0

\* Adam(lr, weight_decay) (line 202) stepped through `run` on a parameter of
\* the given kind that had the value `base` when the optimizer was built.  A
\* parameter whose .grad is None is skipped.  For the others the gradient of a
\* step is grad + weight_decay * p: the steps move a parameter that is not
\* zero, a step with a zero gradient too, and leave a parameter where it is
\* when it is zero and every gradient was zero.
AdamValue(base, run, kind) ==
    IF kind = "unreached" THEN base
    ELSE IF kind = "zero" /\ base = InitialValue /\ AllZero(run) THEN base
    ELSE Append(base, run)

AdamUpdate(base, hist, kind) ==
    [n \in DOMAIN base |-> AdamValue(base[n], hist[n], kind[n])]

\* lines 230-237
optimizer_step(s) ==
    LET h == [n \in ParamNames |->
                Append(s.tr.hist[n], [grad |-> s.tr.grad[n], lr_decays |-> s.tr.lr_decays])]
        s1 == [s EXCEPT !.heap[s.model].params = AdamUpdate(s.tr.base, h, s.param_kind),
                        !.tr.hist = h,
                        !.tr.step = @ + 1,
                        !.tr.loss_grad = [n \in ParamNames |-> 0],
                        !.pc = BatchPc(s, s.tr.step + 1)]
    IN WandbLog(s1, {"training_loss"})

\* (mutant of scheduler_step: the learning rate is not decayed)
scheduler_step_skipped(s) ==
    [s EXCEPT !.pc = "validate"]

\* line 239
scheduler_step(s) ==
    [s EXCEPT !.tr.lr_decays = @ + 1, !.pc = "validate"]

\* evaluate(loader, model, ...): runs the model in inference mode
evaluate(s, ref) == [s EXCEPT !.heap[ref].training = FALSE]

EpochLogKeys ==
    {"train_mse", "val_mse", "train_de_mse", "val_de_mse",
     "train_pearson", "val_pearson", "train_de_pearson", "val_de_pearson"}

\* lines 241-264; v is val_metrics['mse_de']
validate(s, v) ==
    LET s1 == evaluate(evaluate(s, s.model), s.model)
        s2 == [s1 EXCEPT !.tr.val = v,
                         !.tr.vals = Append(@, v),
                         !.pc = "snapshot"]
    IN WandbLog(s2, EpochLogKeys)

\* (mutant of Improves: a tie replaces the snapshot)
ImprovesOrTies(val, min_val) == val <= min_val

\* line 266
Improves(val, min_val) == val < min_val

\* lines 266-268, and the end of the loop body
snapshot(s) ==
    LET s0 == [s EXCEPT !.tr.epoch = @ + 1,
                        !.pc = EpochPc(s.tr.epoch + 1, s.tr.epochs)] IN
    IF Improves(s.tr.val, s.tr.min_val)
    THEN LET s1 == Collect([s0 EXCEPT !.tr.best_model = NoAttr])
             b == Alloc(s1.heap)
         IN Collect([s1 EXCEPT !.tr.min_val = s.tr.val,
                               !.tr.best_model = b,
                               !.heap[b] = deepcopy(s1.heap[s1.model]),
                               !.tr.snap_epoch = s.tr.epoch + 1])
    ELSE s0

\* lines 270-271
assign_best(s) ==
    IF s.tr.best_model = NoAttr
    THEN Collect([s EXCEPT !.pc = "idle", !.tr = [NoTrain EXCEPT !.grad = s.tr.grad],
                           !.ret = Raise("UnboundLocalError", <<"best_model">>)])
    ELSE Collect([s EXCEPT !.best_model = s.tr.best_model,
                           !.best_val = s.tr.min_val,
                           !.pc = "testing"])

TestLogKeys ==
    {"test_mse", "test_de_mse", "test_pearson", "test_de_pearson",
     "test_pearson_delta", "test_frac_opposite_direction_top20_non_dropout",
     "test_frac_sigma_below_1_non_dropout", "test_mse_top20_de_non_dropout"}

SubgroupLogKeys(s) ==
    IF s.split = "simulation" THEN {"test_subgroup_metrics"} ELSE {}

\* lines 273-346
testing(s) ==
    LET s1 == evaluate(s, s.best_model)
        s2 == WandbLog(s1, TestLogKeys \cup SubgroupLogKeys(s1))
    IN Collect([s2 EXCEPT !.pc = "idle", !.tr = [NoTrain EXCEPT !.grad = s.tr.grad],
                          !.ret = ReturnNone])

----------------------------------------------------------------------------
(* The program: calls on the instance, of both runs in step *)

Called(s, op, pert_list, path, epochs) ==
    [s EXCEPT !.call = [op |-> op, pert_list |-> pert_list,
                        path |-> path, epochs |-> epochs],
              !.nforward = IF op = "predict" THEN @ ELSE 0,
              !.ncalls = @ + 1]

\* the disk at the start of the process: empty, or holding a directory that
\* an earlier process wrote with model_initialize() and save_model, or that
\* directory with the parameters saved from a DataParallel wrapper, every name
\* under the prefix 'module.'
EmptyFs == [d \in Dirs |-> NoDir]

PretrainedFs ==
    LET d == CHOOSE x \in Dirs : TRUE
        s == model_initialize(PertNetInit(FALSE, {}, EmptyFs, 0), DefaultArgs)
    IN save_model(s, d).fs

DataParallelFs ==
    LET d == CHOOSE x \in Dirs : TRUE
        sd == PretrainedFs[d].model_pt.data
    IN [PretrainedFs EXCEPT ![d].model_pt.data =
            [i \in 1..Len(sd) |-> [k |-> ModulePrefix \o sd[i].k, v |-> sd[i].v]]]

\* that directory with the n-th parameter name only under the prefix
PartlyWrappedFs(n) ==
    LET d == CHOOSE x \in Dirs : TRUE
        sd == PretrainedFs[d].model_pt.data
    IN [PretrainedFs EXCEPT ![d].model_pt.data =
            [i \in 1..Len(sd) |->
                [k |-> IF i = n THEN ModulePrefix \o sd[i].k ELSE sd[i].k,
                 v |-> sd[i].v]]]

InitialFs == {EmptyFs, PretrainedFs, DataParallelFs}

PartlyWrapped == {PartlyWrappedFs(n) : n \in 1..Len(ParamOrder)}

Init ==
    \E fs \in InitialFs : \E kind \in Builds :
        /\ self = [PertNetInit(TRUE, {}, fs, 0) EXCEPT !.param_kind = kind]
        /\ twin = [PertNetInit(FALSE, {}, fs, 0) EXCEPT !.param_kind = kind]

\* a new PertNet instance replaces the old one
NewInstance ==
    /\ self.pc = "idle" /\ twin.pc = "idle"
    /\ self' = [PertNetInit(TRUE, self.wandb_log, self.fs, self.ncalls)
                    EXCEPT !.train_loader = self.train_loader,
                           !.param_kind = self.param_kind,
                           !.wandb_config = self.wandb_config]
    /\ twin' = [PertNetInit(FALSE, twin.wandb_log, twin.fs, twin.ncalls)
                    EXCEPT !.train_loader = twin.train_loader,
                           !.param_kind = twin.param_kind]

ModelInitialize ==
    /\ self.pc = "idle" /\ twin.pc = "idle"
    /\ self.ncalls < MaxCalls
    /\ \E a \in InitArgs :
        /\ self' = Called(model_initialize(self, a),
                          "model_initialize", <<>>, "", 0)
        /\ twin' = Called(model_initialize(twin, a),
                          "model_initialize", <<>>, "", 0)

LoadPretrained ==
    /\ self.pc = "idle" /\ twin.pc = "idle"
    /\ self.ncalls < MaxCalls
    /\ \E path \in Dirs :
        /\ self' = Called(load_pretrained(self, path), "load_pretrained", <<>>, path, 0)
        /\ twin' = Called(load_pretrained(twin, path), "load_pretrained", <<>>, path, 0)

SaveModel ==
    /\ self.pc = "idle" /\ twin.pc = "idle"
    /\ self.ncalls < MaxCalls
    /\ \E path \in Dirs :
        /\ self' = Called(save_model(self, path), "save_model", <<>>, path, 0)
        /\ twin' = Called(save_model(twin, path), "save_model", <<>>, path, 0)

Predict ==
    /\ self.pc = "idle" /\ twin.pc = "idle"
    /\ self.ncalls < MaxCalls
    /\ \E pert_list \in PertLists : \E noise \in [1..Len(pert_list) -> NoiseValues] :
        /\ self' = Called(predict(self, pert_list, noise), "predict", pert_list, "", 0)
        /\ twin' = Called(predict(twin, pert_list, noise), "predict", pert_list, "", 0)

Train ==
    /\ self.pc = "idle" /\ twin.pc = "idle"
    /\ self.ncalls < MaxCalls
    /\ \E epochs \in 0..MaxEpochs :
        /\ self' = Called(train_call(self, epochs), "train", <<>>, "", epochs)
        /\ twin' = Called(train_call(twin, epochs), "train", <<>>, "", epochs)

EpochHead ==
    /\ self.pc = "epoch_head" \/ twin.pc = "epoch_head"
    /\ self' = (IF self.pc = "epoch_head" THEN epoch_head(self) ELSE self)
    /\ twin' = (IF twin.pc = "epoch_head" THEN epoch_head(twin) ELSE twin)

ZeroGrad ==
    /\ self.pc = "zero_grad" \/ twin.pc = "zero_grad"
    /\ self' = (IF self.pc = "zero_grad" THEN zero_grad(self) ELSE self)
    /\ twin' = (IF twin.pc = "zero_grad" THEN zero_grad(twin) ELSE twin)

ForwardLoss ==
    /\ self.pc = "forward" \/ twin.pc = "forward"
    /\ \E rows \in BatchRows : \E loss_ok \in BOOLEAN :
        /\ self' = (IF self.pc = "forward"
                    THEN forward_loss(self, rows, loss_ok) ELSE self)
        /\ twin' = (IF twin.pc = "forward"
                    THEN forward_loss(twin, rows, loss_ok) ELSE twin)

Backward ==
    /\ self.pc = "backward" \/ twin.pc = "backward"
    /\ \E g \in Grads :
        /\ self' = (IF self.pc = "backward" THEN backward(self, g) ELSE self)
        /\ twin' = (IF twin.pc = "backward" THEN backward(twin, g) ELSE twin)

Clip ==
    /\ self.pc = "clip" \/ twin.pc = "clip"
    /\ self' = (IF self.pc = "clip" THEN clip(self) ELSE self)
    /\ twin' = (IF twin.pc = "clip" THEN clip(twin) ELSE twin)

OptimizerStep ==
    /\ self.pc = "optimizer_step" \/ twin.pc = "optimizer_step"
    /\ self' = (IF self.pc = "optimizer_step" THEN optimizer_step(self) ELSE self)
    /\ twin' = (IF twin.pc = "optimizer_step" THEN optimizer_step(twin) ELSE twin)

SchedulerStep ==
    /\ self.pc = "scheduler_step" \/ twin.pc = "scheduler_step"
    /\ self' = (IF self.pc = "scheduler_step" THEN scheduler_step(self) ELSE self)
    /\ twin' = (IF twin.pc = "scheduler_step" THEN scheduler_step(twin) ELSE twin)

Validate ==
    /\ self.pc = "validate" \/ twin.pc = "validate"
    /\ \E v \in ValScores :
        /\ self' = (IF self.pc = "validate" THEN validate(self, v) ELSE self)
        /\ twin' = (IF twin.pc = "validate" THEN validate(twin, v) ELSE twin)

Snapshot ==
    /\ self.pc = "snapshot" \/ twin.pc = "snapshot"
    /\ self' = (IF self.pc = "snapshot" THEN snapshot(self) ELSE self)
    /\ twin' = (IF twin.pc = "snapshot" THEN snapshot(twin) ELSE twin)

AssignBest ==
    /\ self.pc = "assign_best" \/ twin.pc = "assign_best"
    /\ self' = (IF self.pc = "assign_best" THEN assign_best(self) ELSE self)
    /\ twin' = (IF twin.pc = "assign_best" THEN assign_best(twin) ELSE twin)

Testing ==
    /\ self.pc = "testing" \/ twin.pc = "testing"
    /\ self' = (IF self.pc = "testing" THEN testing(self) ELSE self)
    /\ twin' = (IF twin.pc = "testing" THEN testing(twin) ELSE twin)

Next ==
    \/ NewInstance
    \/ ModelInitialize
    \/ LoadPretrained
    \/ SaveModel
    \/ Predict
    \/ Train
    \/ EpochHead
    \/ ZeroGrad
    \/ ForwardLoss
    \/ Backward
    \/ Clip
    \/ OptimizerStep
    \/ SchedulerStep
    \/ Validate
    \/ Snapshot
    \/ AssignBest
    \/ Testing

Spec == Init /\ [][Next]_vars

\* the program started on a disk whose saved state mixes wrapped and
\* unwrapped parameter names
InitPartlyWrapped ==
    \E fs \in PartlyWrapped : \E kind \in Builds :
        /\ self = [PertNetInit(TRUE, {}, fs, 0) EXCEPT !.param_kind = kind]
        /\ twin = [PertNetInit(FALSE, {}, fs, 0) EXCEPT !.param_kind = kind]

SpecPartlyWrapped == InitPartlyWrapped /\ [][Next]_vars

\* the program started on an empty disk with a dataset whose train_loader
\* yields two batches; it makes one call less than MaxCalls
InitTwoBatches ==
    \E kind \in Builds :
        /\ self = [PertNetInit(TRUE, {}, EmptyFs, 1)
                      EXCEPT !.train_loader = TwoBatches, !.param_kind = kind]
        /\ twin = [PertNetInit(FALSE, {}, EmptyFs, 1)
                      EXCEPT !.train_loader = TwoBatches, !.param_kind = kind]

SpecTwoBatches == InitTwoBatches /\ [][Next]_vars

----------------------------------------------------------------------------
(* Properties.  Each is stated of a run s (or of a step from s to t) and   *)
(* asserted of both runs.                                                  *)

TrainPcs == {"epoch_head", "zero_grad", "forward", "backward", "clip",
             "optimizer_step", "scheduler_step", "validate", "snapshot",
             "assign_best", "testing"}

\* a call returned or raised between s and t, or a step of train() was taken
Stepped(s, t) == t # s

\* C1: an optimizer step of train() never changes the parameters of the best
\* model that was in place before the step (the best model is a copy that does
\* not alias the current model)
StepKeepsBest(s, t) ==
    (s.pc = "optimizer_step" /\ Stepped(s, t) /\ s.best_model # NoAttr)
        => t.heap[s.best_model] = s.heap[s.best_model]

C1_OptimizerStepKeepsBestModel ==
    [][StepKeepsBest(self, self') /\ StepKeepsBest(twin, twin')]_vars

----------------------------------------------------------------------------

\* the validation scores the snapshot decision has been taken on
Decided(s) ==
    IF s.pc = "snapshot" THEN SubSeq(s.tr.vals, 1, Len(s.tr.vals) - 1) ELSE s.tr.vals

RunMin(vals) ==
    LET S == {vals[i] : i \in 1..Len(vals)} \cup {Inf}
    IN CHOOSE m \in S : \A x \in S : m <= x

\* the earliest epoch (from 1) whose score is the minimum; 0 when no score is
\* below np.inf
EarliestArgMin(vals) ==
    IF RunMin(vals) = Inf THEN 0
    ELSE CHOOSE i \in 1..Len(vals) :
            vals[i] = RunMin(vals) /\ \A j \in 1..(i-1) : vals[j] # RunMin(vals)

\* C2: within one train() run the running minimum is the minimum of the
\* validation scores so far (so it never increases), the retained snapshot is
\* the one taken at the earliest epoch that reached it (a tie does not replace
\* it), and when Testing starts the best model is that snapshot
EarliestMinimumKept(s) ==
    s.pc \in TrainPcs =>
        LET d == Decided(s)
            e == EarliestArgMin(d)
        IN /\ s.tr.min_val = RunMin(d)
           /\ s.tr.snap_epoch = e
           /\ (e = 0) = (s.tr.best_model = NoAttr)
           /\ s.pc = "testing" => (e > 0 /\ s.best_model = s.tr.best_model)

\* the snapshot of an epoch holds the current model's parameters of that epoch,
\* and no later step of the run changes it
SnapshotIsOfItsEpoch(s, t) ==
    (s.pc \in TrainPcs /\ t.pc \in TrainPcs /\ t.tr.best_model # NoAttr) =>
        IF s.pc = "snapshot" /\ t.tr.snap_epoch # s.tr.snap_epoch
        THEN /\ t.tr.snap_epoch = s.tr.epoch + 1
             /\ t.heap[t.tr.best_model].params = s.heap[s.model].params
        ELSE /\ s.tr.best_model # NoAttr
             /\ t.heap[t.tr.best_model].params = s.heap[s.tr.best_model].params

C2_BestIsEarliestMinimum ==
    /\ [](EarliestMinimumKept(self) /\ EarliestMinimumKept(twin))
    /\ [][SnapshotIsOfItsEpoch(self, self') /\ SnapshotIsOfItsEpoch(twin, twin')]_vars

\* two epochs tie at the minimum, the current model has moved on since the
\* first of them, and Testing starts on the snapshot of the first
C2_Witness ==
    /\ self.pc = "testing"
    /\ Len(self.tr.vals) = 2
    /\ self.tr.vals[1] = self.tr.vals[2]
    /\ self.tr.vals[1] < Inf
    /\ self.tr.snap_epoch = 1
    /\ self.heap[self.best_model].params # self.heap[self.model].params

----------------------------------------------------------------------------

HasArtifacts(fs, path) == fs[path].config_pkl.present /\ fs[path].model_pt.present

\* C3: save_model(dir) by an initialized instance, then load_pretrained(dir) on
\* a new instance, yields the saved Configuration on every key but device and
\* num_genes, and current-model parameters equal to the saved ones
RoundTrip(s, t) ==
    (s.call.op = "__init__" /\ t.call.op = "load_pretrained"
        /\ HasArtifacts(s.fs, t.call.path)
        /\ SdKeys(s.fs[t.call.path].model_pt.data) = ParamNames)
    => LET saved == pickle_load(s.fs[t.call.path].config_pkl.data)
           sd == s.fs[t.call.path].model_pt.data
       IN /\ t.ret.kind = "return"
          /\ DOMAIN t.config = (DOMAIN saved) \ {"device", "num_genes"}
          /\ \A k \in DOMAIN t.config : t.config[k] = saved[k]
          /\ \A i \in 1..Len(sd) : t.heap[t.model].params[sd[i].k] = sd[i].v

C3_SaveLoadRoundTrip == [][RoundTrip(self, self') /\ RoundTrip(twin, twin')]_vars

----------------------------------------------------------------------------

OffendingGenes(pert_list) ==
    UNION { {pert_list[p][i] : i \in 1..Len(pert_list[p])} : p \in 1..Len(pert_list) }
        \ GeneUniverse

\* the message holds the gene's name
Names(msg, gene) ==
    \E i \in 1..Len(msg) : SubSeq(msg, i, i + Len(gene) - 1) = gene

\* C4: predict with a gene outside the gene universe fails with a validation
\* error whose message names that gene
ErrorNamesGene(s) ==
    (s.call.op = "predict" /\ ValidationRaises(s.call.pert_list))
    => /\ s.ret.kind = "raise"
       /\ s.ret.exc = "ValueError"
       /\ \E g \in OffendingGenes(s.call.pert_list) : Names(s.ret.msg, g)

C4_ValidationErrorNamesGene == ErrorNamesGene(self) /\ ErrorNamesGene(twin)

----------------------------------------------------------------------------

\* C5: when any gene of any perturbation of the list is outside the gene
\* universe, predict raises before any forward pass is run and returns no
\* result mapping
NoPartialResult(s) ==
    (s.call.op = "predict" /\ ValidationRaises(s.call.pert_list))
    => /\ s.ret.kind = "raise"
       /\ s.nforward = 0
       /\ s.ret.pred = EmptyMap
       /\ s.ret.unc = EmptyMap

C5_NoPartialResult == NoPartialResult(self) /\ NoPartialResult(twin)

\* the unknown gene comes after a valid perturbation, on an initialized instance
C5_Witness ==
    /\ self.call.op = "predict"
    /\ self.call.pert_list = << <<GeneA>>, <<GeneB, GeneX>> >>
    /\ self.config # None
    /\ self.ret.kind = "raise"
    /\ self.ret.exc = "ValueError"

----------------------------------------------------------------------------

\* a perturbation's genes joined by an underscore
UnderscoreLabel(pert) ==
    IF Len(pert) = 1 THEN pert[1] ELSE pert[1] \o <<"_">> \o pert[2]

Labels(pert_list) == {UnderscoreLabel(pert_list[i]) : i \in 1..Len(pert_list)}

\* a predict call with a valid list on an instance on which an initialization
\* has completed
ValidCall(s) ==
    /\ s.call.op = "predict" /\ ~ValidationRaises(s.call.pert_list)
    /\ s.config # None /\ s.best_model # NoAttr

\* C6: predict with a valid list of length N returns a prediction mapping of
\* exactly N keys, the underscore-joined labels of the list's elements
ExactlyNKeys(s) ==
    ValidCall(s) =>
        /\ s.ret.kind = "return"
        /\ Cardinality(DOMAIN s.ret.pred) = Len(s.call.pert_list)
        /\ DOMAIN s.ret.pred = Labels(s.call.pert_list)

C6_ExactlyNKeys == ExactlyNKeys(self) /\ ExactlyNKeys(twin)

----------------------------------------------------------------------------

\* C7: a predict call that follows a predict call with the same list returns
\* what the first returned; the best model is run in inference mode and the
\* call changes no predictor
Repeatable(s, t) ==
    (s.pc = "idle" /\ s.call.op = "predict" /\ s.ret.kind = "return"
        /\ t.call.op = "predict" /\ t.call.pert_list = s.call.pert_list)
    => /\ t.ret = s.ret
       /\ ~s.heap[s.best_model].training
       /\ t.heap = s.heap

C7_PredictRepeatable == [][Repeatable(self, self') /\ Repeatable(twin, twin')]_vars

----------------------------------------------------------------------------

Artifacts(fs) == [d \in Dirs |-> <<fs[d].config_pkl, fs[d].model_pt>>]

\* model_initialize has never completed on the instance: self.best_model,
\* which its last statement (line 113) assigns, was never assigned
NeverInitialized(s) == s.best_model = NoAttr

\* C8: save_model on an instance on which model_initialize (or
\* load_pretrained) has never completed raises the 'No model is
\* initialized...' error and writes no artifact
SaveUninitialized(s, t) ==
    (s.pc = "idle" /\ NeverInitialized(s) /\ t.call.op = "save_model")
    => /\ t.ret = Raise("ValueError", NoModelMsg)
       /\ Artifacts(t.fs) = Artifacts(s.fs)

C8_SaveBeforeInitialize ==
    [][SaveUninitialized(self, self') /\ SaveUninitialized(twin, twin')]_vars

----------------------------------------------------------------------------

Zeros == [n \in ParamNames |-> 0]
InitialParams == [n \in ParamNames |-> InitialValue]
Clipped(grad) == \A n \in DOMAIN grad : grad[n] <= clip_value /\ grad[n] >= 0 - clip_value

\* the gradients the optimizer of the running train() call has consumed
Consumed(s) ==
    UNION {{s.tr.hist[n][i].grad : i \in 1..Len(s.tr.hist[n])} : n \in ParamNames}

\* C9: the statements of a training step come in the order reset of the
\* gradients, forward pass and loss, backpropagation, clip, optimizer step (a
\* step whose forward pass raises ends there); what the clip receives is the
\* gradient of this step's loss alone, what it leaves has every component in
\* [-1, 1], and no gradient the optimizer has consumed has a component outside
\* [-1, 1]
TrainingStepOrder(s, t) ==
    /\ s.pc = "zero_grad" => (t.pc = "forward" /\ t.tr.grad = Zeros)
    /\ t.pc = "forward" => s.pc = "zero_grad"
    /\ s.pc = "forward" => t.pc \in {"backward", "idle"}
    /\ t.pc = "backward" => (s.pc = "forward" /\ t.tr.grad = Zeros)
    /\ s.pc = "backward" => (t.pc = "clip" /\ t.tr.grad = t.tr.loss_grad)
    /\ t.pc = "clip" => s.pc = "backward"
    /\ s.pc = "clip" => (t.pc = "optimizer_step" /\ Clipped(t.tr.grad))
    /\ t.pc = "optimizer_step" => s.pc = "clip"
    /\ s.pc = "optimizer_step" =>
          /\ Clipped(s.tr.grad)
          /\ t.pc \in {"zero_grad", "scheduler_step"}
    /\ t.pc = "zero_grad" => s.pc \in {"epoch_head", "optimizer_step"}
    /\ \A g \in Consumed(t) : g <= clip_value /\ g >= 0 - clip_value

C9_ClipBeforeOptimizerStep ==
    [][TrainingStepOrder(self, self') /\ TrainingStepOrder(twin, twin')]_vars

\* the optimizer step is about to consume a gradient that backpropagation left
\* above 1 in magnitude and the clip brought to magnitude 1
C9_Witness ==
    /\ self.pc = "optimizer_step"
    /\ self.tr.loss_grad[W] > clip_value
    /\ self.tr.grad[W] = clip_value

----------------------------------------------------------------------------

\* a run without what telemetry holds
Observable(s) ==
    [s EXCEPT !.weight_bias_track = FALSE, !.wandb_config = None, !.wandb_log = {}]

\* C10: the run with telemetry and the run without it, given the same calls,
\* gradients and validation scores, are at the same step with the same
\* Configuration, predictors, directory and results; telemetry only receives
\* logs
C10_TelemetryDoesNotInterfere ==
    /\ self.weight_bias_track /\ ~twin.weight_bias_track
    /\ Observable(self) = Observable(twin)
    /\ twin.wandb_log = {} /\ twin.wandb_config = None

----------------------------------------------------------------------------

\* C11: on an initialized instance train() never ends in an error: whatever
\* the epoch count and the validation scores, a best model is retained when
\* the epoch loop ends, Testing is run on it and the call returns
TrainCompletes(s) ==
    (s.call.op = "train" /\ s.model # NoAttr)
    => /\ s.ret.kind # "raise"
       /\ s.pc = "testing" => (s.best_model # NoAttr /\ s.best_model = s.tr.best_model)
       /\ s.pc = "assign_best" => s.tr.best_model # NoAttr

C11_TrainAlwaysReachesTesting == TrainCompletes(self) /\ TrainCompletes(twin)

----------------------------------------------------------------------------

\* a method call was made between s and t
CallMade(s, t, op) == t.call.op = op /\ t.ncalls = s.ncalls + 1

\* C12: load_pretrained succeeds on every directory that holds what save_model
\* wrote, whichever instance wrote it (one whose Configuration came from
\* load_pretrained included): it returns, and the instance holds the saved
\* Configuration without device and num_genes
RestoreSucceeds(s, t) ==
    (CallMade(s, t, "load_pretrained") /\ HasArtifacts(s.fs, t.call.path))
    => /\ t.ret.kind = "return"
       /\ t.config # None
       /\ DOMAIN t.config
            = (DOMAIN pickle_load(s.fs[t.call.path].config_pkl.data))
                \ {"device", "num_genes"}

C12_RestoreAfterResave ==
    [][RestoreSucceeds(self, self') /\ RestoreSucceeds(twin, twin')]_vars

----------------------------------------------------------------------------

\* C13: when a train() run promotes its snapshot over a best model that an
\* earlier train() run promoted, the snapshot's validation score is strictly
\* lower than the score of the best model it replaces
PromotionImproves(s, t) ==
    (s.pc = "assign_best" /\ t.pc = "testing" /\ s.best_val < Inf)
    => t.best_val < s.best_val

C13_LaterRunKeepsBetterBest ==
    [][PromotionImproves(self, self') /\ PromotionImproves(twin, twin')]_vars

----------------------------------------------------------------------------

\* a saved parameter name without the wrapper prefix, when it has it
NormalizedName(k) == IF Head7(k) = ModulePrefix THEN Tail7(k) ELSE k

\* the directory holds a Configuration load_pretrained can strip, and saved
\* parameters whose names, each normalized by itself, are the predictor's
Loadable(fs, path) ==
    /\ HasArtifacts(fs, path)
    /\ {"device", "num_genes"} \subseteq DOMAIN pickle_load(fs[path].config_pkl.data)
    /\ LET sd == fs[path].model_pt.data
       IN /\ {NormalizedName(sd[i].k) : i \in 1..Len(sd)} = ParamNames
          /\ \A i, j \in 1..Len(sd) :
                i # j => NormalizedName(sd[i].k) # NormalizedName(sd[j].k)

\* C14: load_pretrained loads every saved parameter under its own normalized
\* name (the prefix 'module.' removed where the name has it, the name unchanged
\* where it has not), whatever the order of the names in the saved state
PerNameNormalization(s, t) ==
    (CallMade(s, t, "load_pretrained") /\ Loadable(s.fs, t.call.path))
    => LET sd == s.fs[t.call.path].model_pt.data
       IN /\ t.ret.kind = "return"
          /\ \A i \in 1..Len(sd) :
                t.heap[t.model].params[NormalizedName(sd[i].k)] = sd[i].v

C14_PrefixStrippedPerName ==
    [][PerNameNormalization(self, self') /\ PerNameNormalization(twin, twin')]_vars

----------------------------------------------------------------------------

\* the batches the epoch has run its forward pass on are the first of the
\* loader, in the loader's order; after the batch loop they are all of them
BatchesInOrder(s) ==
    /\ s.pc \in {"zero_grad", "forward"}
          => s.tr.seen = SubSeq(s.train_loader, 1, s.tr.step)
    /\ s.pc \in {"backward", "clip", "optimizer_step"}
          => s.tr.seen = SubSeq(s.train_loader, 1, s.tr.step + 1)
    /\ s.pc \in {"scheduler_step", "validate", "snapshot"}
          => s.tr.seen = s.train_loader

\* the learning rate has been decayed once per completed epoch, and once more
\* between the decay of the running epoch and its snapshot decision
DecaysCounted(s) ==
    /\ s.pc \in {"validate", "snapshot"} => s.tr.lr_decays = s.tr.epoch + 1
    /\ s.pc \in TrainPcs \ {"validate", "snapshot"} => s.tr.lr_decays = s.tr.epoch
    /\ s.pc = "snapshot" => Len(s.tr.vals) = s.tr.epoch + 1
    /\ s.pc = "testing" =>
          /\ s.tr.epoch = s.tr.epochs
          /\ s.tr.lr_decays = s.tr.epochs
          /\ Len(s.tr.vals) = s.tr.epochs

\* the steps of an epoch follow one another in the order of the code
EpochOrder(s, t) ==
    /\ s.pc \in {"zero_grad", "forward", "backward", "clip"}
          => t.heap[t.model].params = s.heap[s.model].params
    /\ s.pc = "optimizer_step" =>
          /\ t.tr.step = s.tr.step + 1
          /\ t.pc = (IF t.tr.step < Len(s.train_loader)
                     THEN "zero_grad" ELSE "scheduler_step")
    /\ s.pc = "scheduler_step" =>
          (t.pc = "validate" /\ t.tr.lr_decays = s.tr.lr_decays + 1)
    /\ (s.pc \in TrainPcs /\ t.pc \in TrainPcs /\ s.pc # "scheduler_step")
          => t.tr.lr_decays = s.tr.lr_decays
    /\ s.pc = "validate" =>
          (t.pc = "snapshot" /\ t.heap[t.model].params = s.heap[s.model].params)
    /\ s.pc = "snapshot" =>
          /\ t.tr.epoch = s.tr.epoch + 1
          /\ t.pc = (IF t.tr.epoch < s.tr.epochs THEN "epoch_head" ELSE "assign_best")
    /\ t.pc = "assign_best" => s.pc \in {"snapshot", "idle"}
    /\ t.pc = "testing" => s.pc = "assign_best"

\* C15: in every epoch the batches are processed in the loader's order, each
\* step on the parameters the step before left, then the learning rate is
\* decayed exactly once, then comes validation, then the snapshot decision;
\* after e epochs the rate has been decayed e times, and Testing starts only
\* after the last epoch's snapshot decision
C15_EpochEventOrder ==
    /\ [](BatchesInOrder(self) /\ BatchesInOrder(twin)
            /\ DecaysCounted(self) /\ DecaysCounted(twin))
    /\ [][EpochOrder(self, self') /\ EpochOrder(twin, twin')]_vars

\* Testing has started after two epochs of two batches each
C15_Witness ==
    /\ self.pc = "testing"
    /\ self.train_loader = TwoBatches
    /\ self.tr.epochs = 2
    /\ self.tr.lr_decays = 2
    /\ self.tr.seen = TwoBatches
    /\ self.heap[self.model].params # InitialParams

----------------------------------------------------------------------------

ConfigKeys == {ConfigKeyOrder[i] : i \in 1..Len(ConfigKeyOrder)}

\* the Configuration as model_initialize leaves it: every key of lines 77-92,
\* the instance's device and the gene count of the data
FullConfig(s) ==
    /\ s.config # None
    /\ DOMAIN s.config = ConfigKeys
    /\ s.config.device = s.device
    /\ s.config.num_genes = num_genes

\* a step of train, predict or save_model: the call itself, or a later step
\* of a training run
StepOfFramedOp(s, t) ==
    /\ t.call.op \in {"train", "predict", "save_model"}
    /\ t.ncalls = s.ncalls + 1 \/ (s.pc # "idle" /\ t.ncalls = s.ncalls)

ConfigFrame(s, t) ==
    /\ CallMade(s, t, "model_initialize") => FullConfig(t)
    /\ StepOfFramedOp(s, t) => t.config = s.config

\* C16: model_initialize returns with a Configuration that holds every key,
\* the device and the gene count, and no step of train, predict or save_model
\* changes a key or a value of it
C16_ConfigUnchangedByOperations ==
    [][ConfigFrame(self, self') /\ ConfigFrame(twin, twin')]_vars

\* a training run and a save after model_initialize, the Configuration still
\* the one model_initialize left
C16_Witness ==
    /\ self.call.op = "save_model"
    /\ self.ret.kind = "return"
    /\ self.ncalls = 3
    /\ self.best_val < Inf
    /\ self.heap[self.model].params # InitialParams
    /\ FullConfig(self) /\ FullConfig(twin)
    /\ self.config.uncertainty

====
